---- MODULE Spec2Model ----
(***************************************************************************)
(* Balanced pair-exposure scheduler of the campus questionnaire server     *)
(* (src/server/server.js): the exposure table kept in image_counts.json,   *)
(* ensureCounts, planPairsForDimension and the /plan-pairs and /submit     *)
(* handlers.                                                               *)
(*                                                                         *)
(* Image file names are the numbers 1..n, in localeCompare order.  A JS    *)
(* object is a function whose DOMAIN is the set of its keys.               *)
(***************************************************************************)
EXTENDS Integers, Sequences, FiniteSets, TLC

\* ------------------------------------------------------------------------
\* Bounds of the model
\* ------------------------------------------------------------------------
\* largest pool handed to planPairsForDimension
MaxItems == 4
\* largest count in a count object handed to planPairsForDimension
MaxCount == 2
\* largest batch size k
MaxK == 3
\* number of image files that can be in the images directory
MaxImages == 3
\* largest count the persisted table is let grow to
MaxStored == 1
\* largest number of comparisons in a /submit body
MaxRows == 1
\* largest pairsPerDimension of a /plan-pairs body
MaxPairs == 1
\* number of requests the event loop is given
MaxRequests == 2
\* largest number of comparisons in the body of a request handled alone
MaxBody == 2
\* number of participants whose questionnaires are followed
MaxSessions == 2
\* largest number of pairs a questionnaire asks about, over all dimensions
MaxQuestions == 2
\* largest number of /submit requests a questionnaire sends
MaxAttempts == 2
\* number of meta pages of the questionnaire
MaxMeta == 2
\* largest number of counts the counts file of the questionnaires holds
\* (dimensions times images)
MaxEntries == 4

Items == 1 .. MaxItems
\* the names of the image files the directory can hold
Images == 1 .. MaxImages
\* the dimensions requests name (the client's DIM_TITLES has a third one)
Dims == {"safer", "relaxing"}
\* "no item": what Array.prototype.find returns when nothing matches
NoItem == 0

\* ------------------------------------------------------------------------
\* JavaScript values
\* ------------------------------------------------------------------------
EmptyObj == [x \in {} |-> 0]
Undefined == [type |-> "undefined"]
Obj(f) == [type |-> "object", entries |-> f]

\* Object.keys(o), as a set
Keys(o) == IF o = EmptyObj THEN {} ELSE DOMAIN o

\* the elements of an array, as a set
Elems(s) == {s[j] : j \in 1 .. Len(s)}

\* ------------------------------------------------------------------------
\* planPairsForDimension(files, countsObj, k)
\* ------------------------------------------------------------------------
\* One call of planPairsForDimension is a frame: its arguments, its locals
\* and its position.  pc is "entry" (line 88), "loop" (the for statement of
\* line 97), "returned" or "threw".
Frame(files, countsObj, k) ==
  [files |-> files, countsObj |-> countsObj, k |-> k,
   localCount |-> EmptyObj, usedInBatch |-> {}, pairs |-> <<>>,
   i |-> 0, pc |-> "entry"]

\* countsObj[f] ?? 0
CountOrZero(countsObj, f) ==
  IF f \in Keys(countsObj.entries) THEN countsObj.entries[f] ELSE 0

\* new Map(files.map(f => [f, countsObj[f] ?? 0])): one key per distinct file
NewLocalCount(files, countsObj) ==
  [f \in Elems(files) |-> CountOrZero(countsObj, f)]

\* a ranking that ignores the counts
MinKeys_Any(lc, S) == S

\* a ranking that breaks ties by name: the first name of least count
MinKeys_FirstSeen(lc, S) ==
  LET least == {m \in S : \A n \in S : lc[m] <= lc[n]}
  IN  {m \in least : \A n \in least : m <= n}

\* a ranking by count descending: the entries of greatest count
MinKeys_Most(lc, S) == {m \in S : \A n \in S : lc[m] >= lc[n]}

\* The entries of least count among the keys in S.
MinKeys(lc, S) == {m \in S : \A n \in S : lc[m] <= lc[n]}

\* sorted(): the keys of localCount ordered by count ascending; the
\* comparator answers Math.random()-0.5 for equal counts, so entries of equal
\* count come out in any order.  The set of the arrays one call can return.
RECURSIVE SortedFrom(_, _)
SortedFrom(lc, S) ==
  IF S = {} THEN {<<>>}
  ELSE UNION {{<<m>> \o t : t \in SortedFrom(lc, S \ {m})} : m \in MinKeys(lc, S)}

sorted(lc) == SortedFrom(lc, DOMAIN lc)

\* sorted().filter(n => !usedInBatch.has(n))
FilterUnused(s, usedInBatch) == SelectSeq(s, LAMBDA n : n \notin usedInBatch)

\* candidates without the usedInBatch filter
Cands_NoFilter(lc, usedInBatch) == sorted(lc)

\* candidates without the fallback of line 99
Cands_NoFallback(lc, usedInBatch) ==
  {FilterUnused(s, usedInBatch) : s \in sorted(lc)}

\* lines 98-99: the arrays cands can hold when the body reaches line 100.
\* The first call of sorted() is filtered; when that leaves fewer than 2
\* names, cands is what a second call of sorted() returns.
Cands(lc, usedInBatch) ==
  LET all      == sorted(lc)
      filtered == {FilterUnused(s, usedInBatch) : s \in all}
  IN  {c \in filtered : Len(c) >= 2}
        \cup (IF \E c \in filtered : Len(c) < 2 THEN all ELSE {})

\* a find whose test is n === left
FindRight_SameAsLeft(cands, left) ==
  IF \E j \in 1 .. Len(cands) : cands[j] = left THEN left ELSE NoItem

\* cands.find(n => n !== left)
FindRight(cands, left) ==
  LET idx == {j \in 1 .. Len(cands) : cands[j] # left}
  IN  IF idx = {} THEN NoItem
      ELSE cands[CHOOSE j \in idx : \A j2 \in idx : j <= j2]

\* localCount.set(n, (localCount.get(n) ?? 0) + 1)
Bump(lc, n) == [lc EXCEPT ![n] = @ + 1]

\* a loop that runs once too often: i <= k
LoopCond_OneMore(fr) == fr.i <= fr.k

\* a loop that stops one pass short: i < k - 1
LoopCond_OneLess(fr) == fr.i < fr.k - 1

\* line 97: the loop condition
LoopCond(fr) == fr.i < fr.k

\* the entry without the length test of line 88
EntryStep_NoLengthTest(fr) ==
  IF Len(fr.files) >= 1 /\ fr.countsObj = Undefined THEN [fr EXCEPT !.pc = "threw"]
  ELSE [fr EXCEPT !.localCount = NewLocalCount(fr.files, fr.countsObj),
                  !.pc = "loop"]

\* lines 88-89
EntryStep(fr) ==
  IF Len(fr.files) < 2 THEN [fr EXCEPT !.pc = "returned"]
  ELSE IF fr.countsObj = Undefined THEN [fr EXCEPT !.pc = "threw"]
  ELSE [fr EXCEPT !.localCount = NewLocalCount(fr.files, fr.countsObj),
                  !.pc = "loop"]

\* a body whose second increment names left again
BodyStep_LeftTwice(fr, cands) ==
  IF Len(cands) < 2 THEN [fr EXCEPT !.pc = "returned"]
  ELSE LET left  == cands[1]
           right == FindRight(cands, left)
       IN  IF right = NoItem THEN [fr EXCEPT !.pc = "returned"]
           ELSE [fr EXCEPT
                   !.pairs = Append(@, [left |-> left, right |-> right]),
                   !.localCount = Bump(Bump(@, left), left),
                   !.usedInBatch = @ \cup {left, right},
                   !.i = @ + 1]

\* a body that also writes the two increments into countsObj
BodyStep_WritesCountsObj(fr, cands) ==
  IF Len(cands) < 2 THEN [fr EXCEPT !.pc = "returned"]
  ELSE LET left  == cands[1]
           right == FindRight(cands, left)
       IN  IF right = NoItem THEN [fr EXCEPT !.pc = "returned"]
           ELSE [fr EXCEPT
                   !.pairs = Append(@, [left |-> left, right |-> right]),
                   !.localCount = Bump(Bump(@, left), right),
                   !.countsObj = Obj(Bump(Bump(@.entries, left), right)),
                   !.usedInBatch = @ \cup {left, right},
                   !.i = @ + 1]

\* a body that marks only left as used
BodyStep_ForgetsRight(fr, cands) ==
  IF Len(cands) < 2 THEN [fr EXCEPT !.pc = "returned"]
  ELSE LET left  == cands[1]
           right == FindRight(cands, left)
       IN  IF right = NoItem THEN [fr EXCEPT !.pc = "returned"]
           ELSE [fr EXCEPT
                   !.pairs = Append(@, [left |-> left, right |-> right]),
                   !.localCount = Bump(Bump(@, left), right),
                   !.usedInBatch = @ \cup {left},
                   !.i = @ + 1]

\* lines 98-108: one pass of the loop body on candidates cands
BodyStep(fr, cands) ==
  IF Len(cands) < 2 THEN [fr EXCEPT !.pc = "returned"]
  ELSE LET left  == cands[1]
           right == FindRight(cands, left)
       IN  IF right = NoItem THEN [fr EXCEPT !.pc = "returned"]
           ELSE [fr EXCEPT
                   !.pairs = Append(@, [left |-> left, right |-> right]),
                   !.localCount = Bump(Bump(@, left), right),
                   !.usedInBatch = @ \cup {left, right},
                   !.i = @ + 1]

\* lines 97-110: the frames one step of the loop can lead to
LoopStep(fr) ==
  IF LoopCond(fr)
  THEN {BodyStep(fr, cands) : cands \in Cands(fr.localCount, fr.usedInBatch)}
  ELSE {[fr EXCEPT !.pc = "returned"]}

\* the frames a call can end in
RECURSIVE RunFrom(_)
RunFrom(fr) ==
  IF fr.pc = "entry" THEN RunFrom(EntryStep(fr))
  ELSE IF fr.pc = "loop" THEN UNION {RunFrom(nx) : nx \in LoopStep(fr)}
  ELSE {fr}

planPairsForDimension(files, countsObj, k) == RunFrom(Frame(files, countsObj, k))

\* ------------------------------------------------------------------------
\* listAllImages, ensureCounts
\* ------------------------------------------------------------------------
\* the array holding the names of S in listAllImages order (line 68)
RECURSIVE SortedList(_)
SortedList(S) ==
  IF S = {} THEN <<>>
  ELSE LET f == CHOOSE x \in S : \A y \in S : x <= y
       IN  <<f>> \o SortedList(S \ {f})

\* listAllImages(): the image files of the directory, sorted; [] when the
\* directory does not exist (a missing directory is the empty set here)
listAllImages(dir) == SortedList(dir)

\* counts[dim] || {}
DimOrEmpty(cnt, dim) == IF dim \in Keys(cnt) THEN cnt[dim] ELSE EmptyObj

\* a seeding that also counts once more every file that has a number
Seed_Recount(obj, files) ==
  [f \in Keys(obj) \cup Elems(files) |-> IF f \in Keys(obj) THEN obj[f] + 1 ELSE 0]

\* a seeding that gives every file 0, counted or not
Seed_Reset(obj, files) == [f \in Keys(obj) \cup Elems(files) |-> 0]

\* lines 75-77: every file without a number gets 0
Seed(obj, files) ==
  [f \in Keys(obj) \cup Elems(files) |-> IF f \in Keys(obj) THEN obj[f] ELSE 0]

\* lines 79-81: every key that files does not include is deleted
Prune(obj, files) == [f \in Keys(obj) \cap Elems(files) |-> obj[f]]

\* a loop body that starts the dimension again from counts of 0
EnsureDim_Fresh(cnt, dim, files) ==
  LET obj == [f \in Elems(files) |-> 0]
  IN  IF cnt = EmptyObj THEN dim :> obj ELSE (dim :> obj) @@ cnt

\* lines 74-81: the body of the loop over dimensions
EnsureDim(cnt, dim, files) ==
  LET obj == Prune(Seed(DimOrEmpty(cnt, dim), files), files)
  IN  IF cnt = EmptyObj THEN dim :> obj ELSE (dim :> obj) @@ cnt

\* lines 73-82: the loop over dimensions, from its j-th element on
RECURSIVE EnsureFrom(_, _, _, _)
EnsureFrom(cnt, dimensions, j, files) ==
  IF j > Len(dimensions) THEN cnt
  ELSE EnsureFrom(EnsureDim(cnt, dimensions[j], files), dimensions, j + 1, files)

\* ensureCounts(dimensions, files) on a counts file holding stored: the
\* object it writes and returns (readJSON(..) || {} is stored itself, the
\* content of a missing file being the empty object here)
ensureCounts(stored, dimensions, files) == EnsureFrom(stored, dimensions, 1, files)

\* ------------------------------------------------------------------------
\* POST /plan-pairs
\* ------------------------------------------------------------------------
\* a loop that hands every call of the planner the counts of the first
\* dimension of the array
RECURSIVE PlanFrom_FirstDimension(_, _, _, _, _)
PlanFrom_FirstDimension(st, dimensions, j, files, k) ==
  IF j > Len(dimensions) THEN {st}
  ELSE UNION {PlanFrom_FirstDimension(
                [counts  |-> st.counts, batches |-> Append(st.batches, fr.pairs)],
                dimensions, j + 1, files, k) :
                fr \in planPairsForDimension(files, Obj(st.counts[dimensions[1]]), k)}

\* lines 157-159, from the j-th dimension on: every way the loop can end,
\* as the counts object it leaves and the batches it planned, one for each
\* element of dimensions
RECURSIVE PlanFrom(_, _, _, _, _)
PlanFrom(st, dimensions, j, files, k) ==
  IF j > Len(dimensions) THEN {st}
  ELSE LET dim == dimensions[j]
       IN  UNION {PlanFrom([counts  |-> [st.counts EXCEPT ![dim] = fr.countsObj.entries],
                            batches |-> Append(st.batches, fr.pairs)],
                           dimensions, j + 1, files, k) :
                    fr \in planPairsForDimension(files, Obj(st.counts[dim]), k)}

\* the plan object after the loop: plan[dim] is the batch of the last
\* element of dimensions that names dim
PlanObject(dimensions, batches) ==
  [d \in Elems(dimensions) |->
     batches[CHOOSE j \in 1 .. Len(dimensions) :
               /\ dimensions[j] = d
               /\ \A j2 \in 1 .. Len(dimensions) : dimensions[j2] = d => j2 <= j]]

\* what a request can fail on.  "ensureCounts": an exception thrown before
\* the writeJSON of line 83 has written (readJSON of line 72 on an unreadable
\* file, the results files of lines 209-216, writeJSON itself).  "writeJSON":
\* the writeJSON of line 226, after ensureCounts has returned.
PlanFaults == {"none", "ensureCounts"}
SubmitFaults == {"none", "ensureCounts", "writeJSON"}

\* the dimensions arrays of /plan-pairs bodies: any array of distinct names,
\* the empty one included
DimLists ==
  {<<>>} \cup {<<d>> : d \in Dims} \cup {s \in Dims \X Dims : s[1] # s[2]}

\* the handler of lines 140-165: every outcome of a request, as the counts
\* file it leaves, the counts object it holds when it responds (none when
\* ensureCounts did not return) and its response
PlanPairsOutcomes(dir, exists, stored, dimensions, k, fault) ==
  LET files == listAllImages(dir)
      same(status) == {[exists |-> exists, stored |-> stored, held |-> EmptyObj,
                        res |-> [route |-> "/plan-pairs", status |-> status, ok |-> FALSE,
                                 plan |-> EmptyObj]]}
  IN  IF Len(dimensions) = 0 THEN same(400)
      ELSE IF Len(files) < 2 THEN same(400)
      ELSE IF fault = "ensureCounts" THEN same(500)
      ELSE LET ensured == ensureCounts(stored, dimensions, files)
           IN  {[exists |-> TRUE, stored |-> ensured, held |-> st.counts,
                 res |-> [route |-> "/plan-pairs", status |-> 200, ok |-> TRUE,
                          plan |-> PlanObject(dimensions, st.batches)]] :
                  st \in PlanFrom([counts |-> ensured, batches |-> <<>>],
                                  dimensions, 1, files, k)}

\* ------------------------------------------------------------------------
\* POST /submit
\* ------------------------------------------------------------------------
\* a comparison of a /submit body, as far as the counts go
Row(dim, left, right) == [dimension |-> dim, leftImage |-> left, rightImage |-> right]
\* the comparisons a body can hold: a pair of two different image names, as
\* the plans hand them out, in a dimension; the names need not be in the
\* directory any more
Rows == {r \in {Row(d, l, r) : d \in Dims, l \in Images, r \in Images} :
           r.leftImage # r.rightImage}

\* the arrays of at most n comparisons
RECURSIVE RowLists(_)
RowLists(n) ==
  IF n = 0 THEN {<<>>}
  ELSE {<<>>} \cup {<<r>> \o t : r \in Rows, t \in RowLists(n - 1)}

\* line 219: the dimensions of the comparisons, each once, in order of
\* first appearance
RECURSIVE DimsInPayload(_, _)
DimsInPayload(comparisons, j) ==
  IF j = 0 THEN <<>>
  ELSE LET before == DimsInPayload(comparisons, j - 1)
       IN  IF comparisons[j].dimension \in Elems(before) THEN before
           ELSE Append(before, comparisons[j].dimension)

\* an increment that stores 1 whatever the count was
Increment_Overwrite(cnt, dim, f) ==
  [cnt EXCEPT ![dim] = [g \in Keys(cnt[dim]) \cup {f} |->
                          IF g = f THEN 1 ELSE cnt[dim][g]]]

\* counts[dim][f] = (counts[dim][f] ?? 0) + 1
Increment(cnt, dim, f) ==
  [cnt EXCEPT ![dim] = [g \in Keys(cnt[dim]) \cup {f} |->
                          IF g = f THEN (IF f \in Keys(cnt[dim]) THEN cnt[dim][f] ELSE 0) + 1
                          ELSE cnt[dim][g]]]

\* lines 222-225, from the j-th comparison on
RECURSIVE MergeFrom(_, _, _)
MergeFrom(cnt, comparisons, j) ==
  IF j > Len(comparisons) THEN cnt
  ELSE LET r == comparisons[j]
       IN  MergeFrom(Increment(Increment(cnt, r.dimension, r.leftImage),
                               r.dimension, r.rightImage),
                     comparisons, j + 1)

\* the handler of lines 203-233: the outcome of a request
SubmitOutcome(dir, exists, stored, comparisons, fault) ==
  LET files   == listAllImages(dir)
      ensured == ensureCounts(stored, DimsInPayload(comparisons, Len(comparisons)), files)
      merged  == MergeFrom(ensured, comparisons, 1)
      failed  == [route |-> "/submit", status |-> 500, ok |-> FALSE]
  IN  IF fault = "ensureCounts"
      THEN [exists |-> exists, stored |-> stored, res |-> failed]
      ELSE IF fault = "writeJSON"
      THEN [exists |-> TRUE, stored |-> ensured, res |-> failed]
      ELSE [exists |-> TRUE, stored |-> merged,
            res |-> [route |-> "/submit", status |-> 200, ok |-> TRUE]]

\* ------------------------------------------------------------------------
\* State
\* ------------------------------------------------------------------------
VARIABLES
  call,        \* the frame of the planPairsForDimension call under study
  images,      \* the image files in IMAGES_DIR
  fileExists,  \* whether image_counts.json exists
  table,       \* the content of image_counts.json ({} while it does not exist)
  counts,      \* the counts object of the /plan-pairs handler that just
               \* responded, as it is after planning ({} after other steps)
  res,         \* the response the last step sent, without its plan
               \* (NoResponse when the last step was not a request)
  handler,     \* the handler invocations of the requests given to the event
               \* loop, statement by statement: for each its request, its
               \* position and its locals
  session,     \* the questionnaires open in participants' browsers, as far
               \* as their requests go: for each the constants of its App
               \* module, plannedPairs, planError, submitState, and the
               \* history of its requests
  app          \* one App component page by page: the constants of its
               \* module, its state hooks, and the history of what it
               \* displayed and sent

vars == <<call, images, fileExists, table, counts, res, handler, session, app>>
server == <<images, fileExists, table, counts, res, handler>>
clients == <<session, app>>

NoResponse == [route |-> "", status |-> 0, ok |-> FALSE]
NoCall == Frame(<<>>, Undefined, 0)

\* the requests given to the event loop
Requests == 1 .. MaxRequests

\* One invocation of a route handler: the request, the position (pc), the
\* place in the order of dispatch (seq, 0 before it), the counts file as it
\* was at dispatch (before), the local counts object, the plan object, the
\* accesses to the counts file in order (io: "read", "write", and "read!",
\* "write!" for one that threw), and the response (status 0 before it;
\* sentPlan: it carried a plan).
HandlerFrame(req) ==
  [req |-> req, pc |-> "queued", seq |-> 0, before |-> EmptyObj,
   counts |-> EmptyObj, plan |-> EmptyObj, io |-> <<>>,
   status |-> 0, sentPlan |-> FALSE]

\* no request
NoHandler == [HandlerFrame([route |-> ""]) EXCEPT !.pc = "none"]
NoHandlers == [r \in Requests |-> NoHandler]

\* the participants whose questionnaires are followed, numbered in the
\* order in which their questionnaires get their plans
Participants == 1 .. MaxSessions

\* One questionnaire.  ALL_DIMENSIONS and PAIRS_PER_DIMENSION are the
\* constants of the App module; plannedPairs, planError and submitState its
\* state as it is on load.  The other fields record history: planned
\* (plannedPairs was set from a response), snapshot (the counts file as the
\* plan request left it), attempts (requests sent to /submit), stored (how
\* often the server wrote the increments of this questionnaire), disturbed
\* (the server handled a request of another questionnaire after this one
\* was planned and before its increments were first written).
SessionOf(dimensions, k) ==
  [ALL_DIMENSIONS |-> dimensions, PAIRS_PER_DIMENSION |-> k,
   plannedPairs |-> EmptyObj, planError |-> FALSE, submitState |-> "idle",
   planned |-> FALSE, snapshot |-> EmptyObj, attempts |-> 0,
   stored |-> 0, disturbed |-> FALSE]
NoSessions == [p \in Participants |-> SessionOf(<<>>, 0)]

\* the fields of the meta pages that are asked (the first MaxMeta of
\* metaPages), and the options of a meta page (its first two)
MetaFields == SubSeq(<<"gender", "age", "identity", "personality">>, 1, MaxMeta)
MetaOptions == {"1", "2"}

\* The App component on load: the constants of the module, the state hooks
\* meta, pairChoices (keyed by <<dimension, pairIndex>>), plannedPairs,
\* planning, planError (whether a message is set), step and submitState.
\* The other fields record history: shown (for each choice made, the pair
\* that was displayed when it was made), replanned (plannedPairs was set
\* more than once), payload (the comparisons of the last /submit request),
\* sent (a /submit request was sent) and attempts (how many).
AppOf(dimensions, k, fields) ==
  [ALL_DIMENSIONS |-> dimensions, PAIRS_PER_DIMENSION |-> k, metaFields |-> fields,
   meta |-> [f \in Elems(fields) |-> ""], pairChoices |-> EmptyObj,
   plannedPairs |-> EmptyObj, planning |-> FALSE, planError |-> FALSE,
   step |-> 0, submitState |-> [sending |-> FALSE, done |-> FALSE, error |-> FALSE],
   shown |-> EmptyObj, replanned |-> FALSE, payload |-> <<>>, sent |-> FALSE, attempts |-> 0]
NoApp == AppOf(<<>>, 0, <<>>)

\* ------------------------------------------------------------------------
\* The planner as a function of its arguments
\* ------------------------------------------------------------------------
\* the pools handed to the planner: every pool without duplicates, and the
\* pools of one name listed twice
FileLists ==
  {SortedList(S) : S \in SUBSET Items} \cup {<<f, f>> : f \in Items}

\* count objects for the names in S: a count for every name (what
\* ensureCounts hands over), or an object that counts none of them
CountObjs(S) == [S -> 0 .. MaxCount] \cup {EmptyObj}

PlanInit ==
  /\ \E files \in FileLists :
    \E countsObj \in {Undefined} \cup {Obj(c) : c \in CountObjs(Elems(files))} :
      \E k \in 0 .. MaxK :
        call = Frame(files, countsObj, k)
  /\ images = {}
  /\ fileExists = FALSE
  /\ table = EmptyObj
  /\ counts = EmptyObj
  /\ res = NoResponse
  /\ handler = NoHandlers
  /\ session = NoSessions
  /\ app = NoApp

PlanEntry ==
  /\ call.pc = "entry"
  /\ call' = EntryStep(call)

PlanIterate ==
  /\ call.pc = "loop"
  /\ LoopCond(call)
  /\ call' \in LoopStep(call)
  /\ call'.pc = "loop"

PlanBreak ==
  /\ call.pc = "loop"
  /\ LoopCond(call)
  /\ call' \in LoopStep(call)
  /\ call'.pc = "returned"

PlanReturn ==
  /\ call.pc = "loop"
  /\ ~LoopCond(call)
  /\ call' \in LoopStep(call)

PlanNext ==
  /\ PlanEntry \/ PlanIterate \/ PlanBreak \/ PlanReturn
  /\ UNCHANGED server
  /\ UNCHANGED clients

SpecPlan == PlanInit /\ [][PlanNext]_vars

\* ------------------------------------------------------------------------
\* The server: requests handled one at a time (the handlers are synchronous),
\* the images directory changing between them
\* ------------------------------------------------------------------------
Init ==
  /\ call = NoCall
  /\ images = Images
  /\ fileExists = FALSE
  /\ table = EmptyObj
  /\ counts = EmptyObj
  /\ res = NoResponse
  /\ handler = NoHandlers
  /\ session = NoSessions
  /\ app = NoApp

\* an image file is put into the directory
AddImage ==
  /\ \E f \in Images \ images : images' = images \cup {f}
  /\ counts' = EmptyObj
  /\ res' = NoResponse
  /\ UNCHANGED <<call, fileExists, table, handler>>

\* an image file is removed from the directory
RemoveImage ==
  /\ \E f \in images : images' = images \ {f}
  /\ counts' = EmptyObj
  /\ res' = NoResponse
  /\ UNCHANGED <<call, fileExists, table, handler>>

\* no count of the object is above the bound
WithinBound(cnt) == \A d \in Keys(cnt) : \A f \in Keys(cnt[d]) : cnt[d][f] <= MaxStored

PlanPairs(dimensions, k, fault) ==
  /\ \E out \in {[o EXCEPT !.res = [route |-> o.res.route, status |-> o.res.status,
                                     ok |-> o.res.ok]] :
                   o \in PlanPairsOutcomes(images, fileExists, table,
                                           dimensions, k, fault)} :
       /\ fileExists' = out.exists
       /\ table' = out.stored
       /\ counts' = out.held
       /\ res' = out.res
  /\ UNCHANGED <<call, images, handler>>

Submit(comparisons, fault) ==
  /\ LET out == SubmitOutcome(images, fileExists, table, comparisons, fault)
     IN  /\ WithinBound(out.stored)
         /\ fileExists' = out.exists
         /\ table' = out.stored
         /\ counts' = EmptyObj
         /\ res' = out.res
  /\ UNCHANGED <<call, images, handler>>

PlanPairsRequest ==
  \E dimensions \in DimLists, k \in 0 .. MaxPairs, fault \in PlanFaults :
    PlanPairs(dimensions, k, fault)

SubmitRequest ==
  \E comparisons \in RowLists(MaxRows), fault \in SubmitFaults :
    Submit(comparisons, fault)

Next ==
  /\ AddImage \/ RemoveImage \/ PlanPairsRequest \/ SubmitRequest
  /\ UNCHANGED clients

Spec == Init /\ [][Next]_vars

\* ------------------------------------------------------------------------
\* The handlers statement by statement, on the event loop
\* ------------------------------------------------------------------------
\* the value of body.dimensions: an array of names, or a value that is not
\* an array
Arr(items) == [type |-> "array", items |-> items]
NotAnArray == [type |-> "string"]
IsArray(v) == v.type = "array"

SubmitRequestOf(comparisons) == [route |-> "/submit", comparisons |-> comparisons]
PlanRequestOf(dimensions, k) ==
  [route |-> "/plan-pairs", dimensions |-> dimensions, k |-> k]

\* the requests a handler is studied on: submits of up to n comparisons, and
\* plan requests with every dimensions value and a pairsPerDimension that is
\* negative, zero or positive
RequestsOf(n) ==
  {SubmitRequestOf(c) : c \in RowLists(n)}
    \cup {PlanRequestOf(d, k) : d \in {Arr(l) : l \in DimLists} \cup {NotAnArray},
                                k \in -1 .. MaxPairs}

\* the handler invocations that are on the stack
Running == {r \in Requests : handler[r].pc \notin {"none", "queued", "done"}}

\* the handler invocations that were dispatched
Dispatched == {r \in Requests : handler[r].seq > 0}

\* an event loop that starts a handler while another has not returned
CanDispatch_Interleaved(r) == TRUE

\* The handlers of lines 140-165 and 203-233 are synchronous (readFileSync,
\* writeFileSync, no await, no callback): the event loop calls the handler of
\* the next request only when no handler is on the stack.
CanDispatch(r) == Running = {}

\* the array ensureCounts is called on: line 155, line 219
EnsureDims(req) ==
  IF req.route = "/submit"
  THEN DimsInPayload(req.comparisons, Len(req.comparisons))
  ELSE req.dimensions.items

\* a validation without the length test of line 143
ValidateStep_NoLengthTest(fr, files) ==
  IF ~IsArray(fr.req.dimensions)
  THEN [fr EXCEPT !.status = 400, !.pc = "done"]
  ELSE IF Len(files) < 2
  THEN [fr EXCEPT !.status = 400, !.pc = "done"]
  ELSE [fr EXCEPT !.pc = "ensure"]

\* lines 142-153: the 400 responses of /plan-pairs (a missing images
\* directory lists no file)
ValidateStep(fr, files) ==
  IF ~IsArray(fr.req.dimensions) \/ Len(fr.req.dimensions.items) = 0
  THEN [fr EXCEPT !.status = 400, !.pc = "done"]
  ELSE IF Len(files) < 2
  THEN [fr EXCEPT !.status = 400, !.pc = "done"]
  ELSE [fr EXCEPT !.pc = "ensure"]

\* a catch block that answers as if nothing had failed
CatchStep_Swallow(fr) ==
  [fr EXCEPT !.status = 200, !.plan = EmptyObj, !.pc = "done"]

\* lines 161-164, 229-232: the catch block answers 500
CatchStep(fr) ==
  [fr EXCEPT !.status = 500, !.plan = EmptyObj, !.pc = "done"]

\* lines 160, 228: the 200 response
RespondStep(fr) ==
  [fr EXCEPT !.status = 200, !.sentPlan = (fr.req.route = "/plan-pairs"),
             !.plan = EmptyObj, !.pc = "done"]

\* express calls the handler of request r
Dispatch(r) ==
  /\ handler[r].pc = "queued"
  /\ CanDispatch(r)
  /\ handler' = [handler EXCEPT ![r] =
       [handler[r] EXCEPT
          !.pc = IF handler[r].req.route = "/submit" THEN "results" ELSE "validate",
          !.seq = Cardinality(Dispatched) + 1,
          !.before = table]]
  /\ UNCHANGED <<call, images, fileExists, table, counts, res>>

\* lines 205-216 of /submit: the results directory and its CSV files, any
\* of which can throw
Results(r) ==
  /\ handler[r].pc = "results"
  /\ \E ok \in BOOLEAN :
       handler' = [handler EXCEPT ![r] =
         [handler[r] EXCEPT !.pc = IF ok THEN "ensure" ELSE "catch"]]
  /\ UNCHANGED <<call, images, fileExists, table, counts, res>>

\* lines 142-153 of /plan-pairs
Validate(r) ==
  /\ handler[r].pc = "validate"
  /\ handler' = [handler EXCEPT ![r] = ValidateStep(handler[r], listAllImages(images))]
  /\ UNCHANGED <<call, images, fileExists, table, counts, res>>

\* the call of ensureCounts (line 155, lines 219-221): readJSON of line 72
\* can throw, writeJSON of line 83 can throw, and otherwise the seeded and
\* pruned object is written and returned
Ensure(r) ==
  /\ handler[r].pc = "ensure"
  /\ LET fr      == handler[r]
         ensured == ensureCounts(table, EnsureDims(fr.req), listAllImages(images))
     IN  \/ /\ handler' = [handler EXCEPT ![r] =
                 [fr EXCEPT !.io = Append(@, "read!"), !.pc = "catch"]]
            /\ UNCHANGED <<fileExists, table>>
         \/ /\ handler' = [handler EXCEPT ![r] =
                 [fr EXCEPT !.io = @ \o <<"read", "write!">>, !.pc = "catch"]]
            /\ UNCHANGED <<fileExists, table>>
         \/ /\ handler' = [handler EXCEPT ![r] =
                 [fr EXCEPT !.io = @ \o <<"read", "write">>,
                            !.counts = ensured,
                            !.pc = IF fr.req.route = "/submit" THEN "merge" ELSE "plan"]]
            /\ table' = ensured
            /\ fileExists' = TRUE
  /\ UNCHANGED <<call, images, counts, res>>

\* lines 222-225 of /submit: the increments, on the handler's object
Merge(r) ==
  /\ handler[r].pc = "merge"
  /\ handler' = [handler EXCEPT ![r] =
       [handler[r] EXCEPT
          !.counts = MergeFrom(handler[r].counts, handler[r].req.comparisons, 1),
          !.pc = "write"]]
  /\ UNCHANGED <<call, images, fileExists, table, counts, res>>

\* lines 156-159 of /plan-pairs: a batch for each dimension
Plan(r) ==
  /\ handler[r].pc = "plan"
  /\ LET fr   == handler[r]
         dims == fr.req.dimensions.items
     IN  \E st \in PlanFrom([counts |-> fr.counts, batches |-> <<>>],
                            dims, 1, listAllImages(images), fr.req.k) :
           handler' = [handler EXCEPT ![r] =
             [fr EXCEPT !.counts = st.counts,
                        !.plan = PlanObject(dims, st.batches),
                        !.pc = "respond"]]
  /\ UNCHANGED <<call, images, fileExists, table, counts, res>>

\* line 226 of /submit: writeJSON of the handler's object, which can throw
Write(r) ==
  /\ handler[r].pc = "write"
  /\ \/ /\ handler' = [handler EXCEPT ![r] =
             [handler[r] EXCEPT !.io = Append(@, "write"), !.pc = "respond"]]
        /\ table' = handler[r].counts
        /\ fileExists' = TRUE
     \/ /\ handler' = [handler EXCEPT ![r] =
             [handler[r] EXCEPT !.io = Append(@, "write!"), !.pc = "catch"]]
        /\ UNCHANGED <<fileExists, table>>
  /\ UNCHANGED <<call, images, counts, res>>

\* lines 160, 228
Respond(r) ==
  /\ handler[r].pc = "respond"
  /\ handler' = [handler EXCEPT ![r] = RespondStep(handler[r])]
  /\ UNCHANGED <<call, images, fileExists, table, counts, res>>

\* lines 161-164, 229-232
Catch(r) ==
  /\ handler[r].pc = "catch"
  /\ handler' = [handler EXCEPT ![r] = CatchStep(handler[r])]
  /\ UNCHANGED <<call, images, fileExists, table, counts, res>>

HandlerNext ==
  /\ \E r \in Requests :
       \/ Dispatch(r) \/ Results(r) \/ Validate(r) \/ Ensure(r) \/ Merge(r)
       \/ Plan(r) \/ Write(r) \/ Respond(r) \/ Catch(r)
  /\ UNCHANGED clients

\* counts of the images: none shown, or images 1 and 2 shown MaxStored times
StartCounts ==
  {[f \in Images |-> 0], [f \in Images |-> IF f <= 2 THEN MaxStored ELSE 0]}

\* the counts file when the requests arrive: none, or one written while all
\* images were in the directory
StartTables ==
  {EmptyObj} \cup {[d \in D |-> c] : D \in SUBSET Dims \ {{}}, c \in StartCounts}

\* the directory when the requests arrive: at most one image was removed, or
\* the directory is missing
StartPools == {S \in SUBSET Images : Cardinality(S) >= MaxImages - 1} \cup {{}}

\* one request, handled alone
HandlerInit ==
  /\ call = NoCall
  /\ images \in StartPools
  /\ table \in StartTables
  /\ fileExists = (table # EmptyObj)
  /\ counts = EmptyObj
  /\ res = NoResponse
  /\ \E req \in RequestsOf(MaxBody) :
       handler = [r \in Requests |-> IF r = 1 THEN HandlerFrame(req) ELSE NoHandler]
  /\ session = NoSessions
  /\ app = NoApp

SpecHandler == HandlerInit /\ [][HandlerNext]_vars

\* MaxRequests requests in the queue of the event loop at once
ConcurrentInit ==
  /\ call = NoCall
  /\ images = Images
  /\ table \in {EmptyObj, [d \in Dims |-> [f \in Images |-> 0]]}
  /\ fileExists = (table # EmptyObj)
  /\ counts = EmptyObj
  /\ res = NoResponse
  /\ handler \in [Requests -> {HandlerFrame(req) : req \in RequestsOf(MaxRows)}]
  /\ session = NoSessions
  /\ app = NoApp

SpecConcurrent == ConcurrentInit /\ [][HandlerNext]_vars

\* ------------------------------------------------------------------------
\* Questionnaires: the requests of the client (src/unnamed/part_002) against
\* the server, each request handled as a whole
\* ------------------------------------------------------------------------
\* the constants an App module can be built with: ALL_DIMENSIONS (the keys of
\* DIM_TITLES in order) and PAIRS_PER_DIMENSION
Builds ==
  {b \in {<<"safer">>, <<"safer", "relaxing">>} \X (1 .. MaxQuestions) :
     Len(b[1]) * b[2] <= MaxQuestions}

\* a comparison that names the left image twice
Comparison_LeftTwice(dim, pair) == Row(dim, pair.left, pair.left)

\* lines 258-264 of handleSubmit: the comparison sent for a planned pair, as
\* far as the counts go
Comparison(dim, pair) == Row(dim, pair.left, pair.right)

\* lines 254-265 of handleSubmit: the comparisons array built from
\* plannedPairs, dimension by dimension from the j-th key on
RECURSIVE ComparisonsFrom(_, _, _)
ComparisonsFrom(plannedPairs, keys, j) ==
  IF j > Len(keys) THEN <<>>
  ELSE [i \in 1 .. Len(plannedPairs[keys[j]]) |->
          Comparison(keys[j], plannedPairs[keys[j]][i])]
         \o ComparisonsFrom(plannedPairs, keys, j + 1)

\* Object.keys(plannedPairs): the dimensions in the order the server planned
\* them, which is the order of the request's array
PlannedKeys(s) == SelectSeq(s.ALL_DIMENSIONS, LAMBDA d : d \in Keys(s.plannedPairs))

\* the questionnaires after p has sent a request and become s: the others
\* that are planned and not yet written are disturbed
AfterRequest(p, s) ==
  [q \in Participants |->
     IF q = p THEN s
     ELSE IF session[q].planned /\ session[q].stored = 0
          THEN [session[q] EXCEPT !.disturbed = TRUE]
          ELSE session[q]]

\* handleIntroProceed (lines 219-246): the plan request with the constants
\* of the module; the server handles it (it can fail, and its response can
\* get lost); a response with ok sets plannedPairs, anything else planError
handleIntroProceed(p) ==
  /\ ~session[p].planned
  /\ \A q \in Participants : q < p => session[q].planned
  /\ \E fault \in PlanFaults, lost \in BOOLEAN :
       \E out \in PlanPairsOutcomes(images, fileExists, table,
                                     session[p].ALL_DIMENSIONS,
                                     session[p].PAIRS_PER_DIMENSION, fault) :
         /\ fileExists' = out.exists
         /\ table' = out.stored
         /\ session' = AfterRequest(p,
              IF out.res.ok /\ ~lost
              THEN [session[p] EXCEPT !.plannedPairs = out.res.plan,
                                      !.planError = FALSE, !.planned = TRUE,
                                      !.snapshot = out.stored]
              ELSE [session[p] EXCEPT !.planError = TRUE])
  /\ UNCHANGED <<call, images, counts, res, handler>>

\* handleSubmit (lines 250-280), reachable while the button of lines 414-417
\* is enabled (not sending, not done): the comparisons of plannedPairs are
\* sent; the server handles the request (it can fail, and its response can
\* get lost); a response with ok sets done, anything else an error, after
\* which the button is enabled again
handleSubmit(p) ==
  /\ session[p].planned
  /\ session[p].submitState # "done"
  /\ session[p].attempts < MaxAttempts
  /\ \E fault \in SubmitFaults, lost \in BOOLEAN :
       LET comparisons == ComparisonsFrom(session[p].plannedPairs,
                                          PlannedKeys(session[p]), 1)
           out == SubmitOutcome(images, fileExists, table, comparisons, fault)
       IN  /\ fileExists' = out.exists
           /\ table' = out.stored
           /\ session' = AfterRequest(p,
                [session[p] EXCEPT
                   !.submitState = IF out.res.ok /\ ~lost THEN "done" ELSE "error",
                   !.attempts = @ + 1,
                   !.stored = IF out.res.ok THEN @ + 1 ELSE @])
  /\ UNCHANGED <<call, images, counts, res, handler>>

SessionNext ==
  /\ \E p \in Participants : handleIntroProceed(p) \/ handleSubmit(p)
  /\ UNCHANGED app

\* the questionnaires are loaded from one build; the directory holds two or
\* more images and no image has been shown (no counts file, or one that
\* holds 0 for every image)
SessionInit ==
  /\ call = NoCall
  /\ images \in {1 .. n : n \in 2 .. MaxImages}
  /\ \E b \in Builds :
       /\ Len(b[1]) * Cardinality(images) <= MaxEntries
       /\ session = [p \in Participants |-> SessionOf(b[1], b[2])]
       /\ table \in {EmptyObj, [d \in Elems(b[1]) |-> [f \in images |-> 0]]}
  /\ fileExists = (table # EmptyObj)
  /\ counts = EmptyObj
  /\ res = NoResponse
  /\ handler = NoHandlers
  /\ app = NoApp

SpecSessions == SessionInit /\ [][SessionNext]_vars

\* ------------------------------------------------------------------------
\* The App component page by page (src/unnamed/part_002)
\* ------------------------------------------------------------------------
\* lines 176-200: the break page and the pair pages of dimension keys[j] and
\* of the dimensions after it
RECURSIVE PairPagesFrom(_, _, _)
PairPagesFrom(plannedPairs, keys, j) ==
  IF j > Len(keys) THEN <<>>
  ELSE <<[type |-> "break", dimension |-> keys[j]]>>
         \o [i \in 1 .. Len(plannedPairs[keys[j]]) |->
               [type |-> "pair", dimension |-> keys[j], pairIndex |-> i,
                pair |-> plannedPairs[keys[j]][i]]]
         \o PairPagesFrom(plannedPairs, keys, j + 1)

\* line 205: pages = [introPage, ...metaPages, ...pairPages, finalPage]
Pages(a) ==
  <<[type |-> "intro"]>>
    \o [i \in 1 .. Len(a.metaFields) |-> [type |-> "meta", field |-> a.metaFields[i]]]
    \o PairPagesFrom(a.plannedPairs, PlannedKeys(a), 1)
    \o <<[type |-> "submit"]>>

\* line 206: curr = pages[step], undefined past the end
Curr(a) ==
  IF a.step + 1 \in 1 .. Len(Pages(a)) THEN Pages(a)[a.step + 1]
  ELSE [type |-> "undefined"]

\* pairChoices[dim]?.[idx] || ""
ChoiceOf(pairChoices, dim, idx) ==
  IF <<dim, idx>> \in Keys(pairChoices) THEN pairChoices[<<dim, idx>>] ELSE ""

\* a check that lets every page pass
isPageAnswered_Always(page, meta, pairChoices) == TRUE

\* lines 64-79
isPageAnswered(page, meta, pairChoices) ==
  IF page.type = "undefined" THEN FALSE
  ELSE IF page.type = "meta" THEN meta[page.field] # ""
  ELSE IF page.type = "pair"
  THEN ChoiceOf(pairChoices, page.dimension, page.pairIndex) \in {"left", "right"}
  ELSE TRUE

\* line 423
canPrev(a) == a.step > 0

\* navigation buttons on break pages too
showNav_OnBreak(a) == Curr(a).type \notin {"intro", "submit"}

\* lines 425-426
showNav(a) == Curr(a).type \notin {"intro", "submit", "break"}
canNext(a) ==
  a.step < Len(Pages(a)) - 1 /\ Curr(a).type \notin {"intro", "submit", "break"}

\* a click on the button of line 299 (enabled while not planning) or on the
\* retry button of lines 301-311 (shown while planError is set): the
\* statements of handleIntroProceed up to the await of line 223
IntroProceed ==
  /\ Curr(app).type = "intro"
  /\ ~app.planning \/ app.planError
  /\ app' = [app EXCEPT !.planning = TRUE, !.planError = FALSE]
  /\ UNCHANGED <<call, images, fileExists, table, counts, res, handler, session>>

\* the server handles the plan request and handleIntroProceed resumes
\* (lines 231-245): a response with ok sets plannedPairs and step 1, a
\* response without ok or a failed fetch sets planError
PlanResponse ==
  /\ app.planning
  /\ \E fault \in PlanFaults, lost \in BOOLEAN :
       \E out \in PlanPairsOutcomes(images, fileExists, table, app.ALL_DIMENSIONS,
                                     app.PAIRS_PER_DIMENSION, fault) :
         /\ fileExists' = out.exists
         /\ table' = out.stored
         /\ app' = IF out.res.ok /\ ~lost
                   THEN [app EXCEPT !.plannedPairs = out.res.plan,
                                    !.planning = FALSE, !.step = 1,
                                    !.replanned = (app.plannedPairs # EmptyObj)]
                   ELSE [app EXCEPT !.planning = FALSE, !.planError = TRUE]
  /\ UNCHANGED <<call, images, counts, res, handler, session>>

\* lines 94-95 and 327: an option of the meta page on display is selected
updateMeta ==
  /\ Curr(app).type = "meta"
  /\ \E opt \in MetaOptions :
       app' = [app EXCEPT !.meta[Curr(app).field] = opt]
  /\ UNCHANGED <<call, images, fileExists, table, counts, res, handler, session>>

\* lines 101-104 and 356, 365: an image of the pair page on display is
\* clicked; the choice is stored under the page's dimension and pairIndex
\* and the next page is shown
choose ==
  /\ Curr(app).type = "pair"
  /\ \E val \in {"left", "right"} :
       LET key == <<Curr(app).dimension, Curr(app).pairIndex>>
       IN  app' = [app EXCEPT
                     !.pairChoices = (key :> val) @@ app.pairChoices,
                     !.shown = (key :> Curr(app).pair) @@ app.shown,
                     !.step = @ + 1]
  /\ UNCHANGED <<call, images, fileExists, table, counts, res, handler, session>>

\* lines 397-403: the button of a break page
StartPart ==
  /\ Curr(app).type = "break"
  /\ app' = [app EXCEPT !.step = @ + 1]
  /\ UNCHANGED <<call, images, fileExists, table, counts, res, handler, session>>

\* lines 462-473: the previous button
PrevPage ==
  /\ showNav(app)
  /\ canPrev(app)
  /\ app' = [app EXCEPT !.step = @ - 1]
  /\ UNCHANGED <<call, images, fileExists, table, counts, res, handler, session>>

\* lines 475-489: the next button; on an unanswered page it only sets the
\* warning text, which is not part of the state modelled
NextPage ==
  /\ showNav(app)
  /\ canNext(app)
  /\ isPageAnswered(Curr(app), app.meta, app.pairChoices)
  /\ app' = [app EXCEPT !.step = @ + 1]
  /\ UNCHANGED <<call, images, fileExists, table, counts, res, handler, session>>

\* lines 258-264: the row sent for pair i of dimension dim
PayloadRow(a, dim, i) ==
  [dimension |-> dim, pairIndex |-> i,
   leftImage |-> a.plannedPairs[dim][i].left,
   rightImage |-> a.plannedPairs[dim][i].right,
   choice |-> ChoiceOf(a.pairChoices, dim, i)]

\* lines 254-265: the comparisons array, from dimension keys[j] on
RECURSIVE PayloadFrom(_, _, _)
PayloadFrom(a, keys, j) ==
  IF j > Len(keys) THEN <<>>
  ELSE [i \in 1 .. Len(a.plannedPairs[keys[j]]) |-> PayloadRow(a, keys[j], i)]
         \o PayloadFrom(a, keys, j + 1)

\* a click on the button of lines 414-417 (enabled while not sending and not
\* done): the statements of handleSubmit up to the await of line 268
SubmitClick ==
  /\ Curr(app).type = "submit"
  /\ ~app.submitState.sending /\ ~app.submitState.done
  /\ app.attempts < MaxAttempts
  /\ app' = [app EXCEPT
               !.submitState = [sending |-> TRUE, done |-> FALSE, error |-> FALSE],
               !.payload = PayloadFrom(app, PlannedKeys(app), 1),
               !.sent = TRUE, !.attempts = @ + 1]
  /\ UNCHANGED <<call, images, fileExists, table, counts, res, handler, session>>

\* the server handles the submit request and handleSubmit resumes (lines
\* 273-279): a response with ok sets done, a response without ok or a failed
\* fetch sets the error
SubmitResponse ==
  /\ app.submitState.sending
  /\ \E fault \in SubmitFaults, lost \in BOOLEAN :
       LET out == SubmitOutcome(images, fileExists, table, app.payload, fault)
       IN  /\ fileExists' = out.exists
           /\ table' = out.stored
           /\ app' = [app EXCEPT !.submitState =
                        IF out.res.ok /\ ~lost
                        THEN [sending |-> FALSE, done |-> TRUE, error |-> FALSE]
                        ELSE [sending |-> FALSE, done |-> FALSE, error |-> TRUE]]
  /\ UNCHANGED <<call, images, counts, res, handler, session>>

AppNext ==
  \/ IntroProceed \/ PlanResponse \/ updateMeta \/ choose \/ StartPart
  \/ PrevPage \/ NextPage \/ SubmitClick \/ SubmitResponse

\* the App component is loaded; the directory holds two or more images and
\* no image has been shown
AppInit ==
  /\ call = NoCall
  /\ images \in {1 .. n : n \in 2 .. MaxImages}
  /\ \E b \in Builds :
       /\ Len(b[1]) * Cardinality(images) <= MaxEntries
       /\ app = AppOf(b[1], b[2], MetaFields)
       /\ table \in {EmptyObj, [d \in Elems(b[1]) |-> [f \in images |-> 0]]}
  /\ fileExists = (table # EmptyObj)
  /\ counts = EmptyObj
  /\ res = NoResponse
  /\ handler = NoHandlers
  /\ session = NoSessions

SpecApp == AppInit /\ [][AppNext]_vars

\* ------------------------------------------------------------------------
\* Properties of planPairsForDimension (checked under SpecPlan)
\* ------------------------------------------------------------------------
NoDuplicates(files) == Cardinality(Elems(files)) = Len(files)
PoolSize(files) == Cardinality(Elems(files))
IsTable(countsObj) == countsObj # Undefined
AllZero(files, countsObj) ==
  IsTable(countsObj) /\ \A f \in Elems(files) : CountOrZero(countsObj, f) = 0

\* the names shown by the first j pairs of a batch
ShownBy(pairs, j) == UNION {{pairs[x].left, pairs[x].right} : x \in 1 .. j}
\* how often name f is shown by a batch
Appearances(pairs, f) ==
  Cardinality({x \in 1 .. Len(pairs) : pairs[x].left = f})
    + Cardinality({x \in 1 .. Len(pairs) : pairs[x].right = f})

\* C1: for a pool without duplicates, whatever the count table and k, every
\* pair of the batch has left different from right.
C1_NoSelfPair ==
  NoDuplicates(call.files) =>
    \A j \in 1 .. Len(call.pairs) : call.pairs[j].left # call.pairs[j].right

C1_Witness ==
  /\ call.pc = "returned"
  /\ NoDuplicates(call.files)
  /\ Len(call.pairs) >= 2

\* C2: for a pool without duplicates the batch never holds more than k
\* pairs, and the batch returned for a count table holds exactly k pairs when
\* the pool has at least 2 and at least 2*k items.
C2_BatchLength ==
  NoDuplicates(call.files) =>
    /\ Len(call.pairs) <= call.k
    /\ ( /\ call.pc = "returned"
         /\ IsTable(call.countsObj)
         /\ PoolSize(call.files) >= 2
         /\ PoolSize(call.files) >= 2 * call.k
         => Len(call.pairs) = call.k )

C2_Witness ==
  /\ call.pc = "returned"
  /\ NoDuplicates(call.files)
  /\ IsTable(call.countsObj)
  /\ call.k = 2
  /\ PoolSize(call.files) = 4
  /\ Len(call.pairs) = 2

\* C3: a call on a pool of 0 or 1 items returns the empty batch and does not
\* throw, whatever k and the count argument are.
C3_InsufficientPool ==
  (Len(call.files) < 2 /\ call.pc # "entry") =>
    (call.pc = "returned" /\ call.pairs = <<>>)

C3_Witness ==
  /\ call.pc = "returned"
  /\ Len(call.files) = 1
  /\ call.k >= 1
  /\ call.countsObj = Undefined

\* the case of C4 and C5: a pool of n distinct items, all counts 0,
\* k = floor(n/2), the loop entered
ZeroStartHalfBatch ==
  /\ call.pc \in {"loop", "returned"}
  /\ NoDuplicates(call.files)
  /\ AllZero(call.files, call.countsObj)
  /\ call.k = PoolSize(call.files) \div 2

\* C4: from all counts 0 on n >= 2 items with k = floor(n/2), every working
\* count stays 0 or 1, whatever the tie-break draws, and no item is shown
\* twice.
C4_ZeroOrOne ==
  (ZeroStartHalfBatch /\ PoolSize(call.files) >= 2) =>
    \A f \in Elems(call.files) :
      /\ call.localCount[f] \in {0, 1}
      /\ Appearances(call.pairs, f) <= 1

C4_Witness ==
  /\ ZeroStartHalfBatch
  /\ call.pc = "returned"
  /\ PoolSize(call.files) = 4
  /\ Len(call.pairs) = 2

\* C5 as the spec words it: for n odd, all counts 0 and k = floor(n/2), at
\* most one item reaches working count 1 after the batch, the rest being 0
\* or 1 and never 2.
C5_AtMostOneReachesOne ==
  (ZeroStartHalfBatch /\ call.pc = "returned" /\ PoolSize(call.files) % 2 = 1) =>
    /\ Cardinality({f \in DOMAIN call.localCount : call.localCount[f] = 1}) <= 1
    /\ \A f \in DOMAIN call.localCount : call.localCount[f] \in {0, 1}

\* C5 amended: for n odd, all counts 0 and k = floor(n/2), at most one item
\* is left at working count 0 after the batch (exactly one when n >= 3), all
\* the others are at 1, and none is at 2.
C5_AtMostOneStaysZero ==
  (ZeroStartHalfBatch /\ call.pc = "returned" /\ PoolSize(call.files) % 2 = 1) =>
    /\ Cardinality({f \in DOMAIN call.localCount : call.localCount[f] = 0}) <= 1
    /\ PoolSize(call.files) >= 3 =>
          Cardinality({f \in Elems(call.files) : call.localCount[f] = 0}) = 1
    /\ \A f \in DOMAIN call.localCount : call.localCount[f] \in {0, 1}

C5_Witness ==
  /\ ZeroStartHalfBatch
  /\ call.pc = "returned"
  /\ PoolSize(call.files) = 3
  /\ Len(call.pairs) = 1

\* pair j of the batch shows a name that an earlier pair of the batch showed
Reshows(pairs, j) ==
  {pairs[j].left, pairs[j].right} \cap ShownBy(pairs, j - 1) # {}

\* C6 as claimed: a pair of the batch shows a name for the second time only
\* when every name of the pool was shown by the pairs before it.
C6_ReshowOnlyWhenAllShown ==
  \A j \in 1 .. Len(call.pairs) :
    Reshows(call.pairs, j) => Elems(call.files) \subseteq ShownBy(call.pairs, j - 1)

\* C6 amended: a pair of the batch shows a name for the second time only when
\* fewer than 2 names of the pool were not shown by the pairs before it.
C6_ReshowOnlyWhenFewerThanTwoUnshown ==
  \A j \in 1 .. Len(call.pairs) :
    Reshows(call.pairs, j) =>
      Cardinality(Elems(call.files) \ ShownBy(call.pairs, j - 1)) < 2

C6_Witness ==
  /\ call.pc = "returned"
  /\ \E j \in 1 .. Len(call.pairs) :
        /\ Reshows(call.pairs, j)
        /\ Cardinality(Elems(call.files) \ ShownBy(call.pairs, j - 1)) = 1

\* the names of set S whose working count in lc is least
Least(lc, S) == {m \in S : \A n \in S : lc[m] <= lc[n]}

\* the names a pass of the loop chooses from when the working counts are lc
\* and the names in used were shown: the unused ones when there are 2 or
\* more of them, all names otherwise
Candidates(lc, used) ==
  IF Cardinality(DOMAIN lc \ used) >= 2 THEN DOMAIN lc \ used ELSE DOMAIN lc

\* C17: for a pool without duplicates and every count table, a pair made
\* while 2 or more names were still unshown shows two names not shown
\* before; so a pool of at least 2*k names yields a batch of pairwise
\* distinct names; and the candidates of a pass hold a used name only when
\* fewer than 2 names are unused.
C17_UnusedFirst ==
  NoDuplicates(call.files) =>
    /\ \A j \in 1 .. Len(call.pairs) :
         Cardinality(Elems(call.files) \ ShownBy(call.pairs, j - 1)) >= 2 =>
           {call.pairs[j].left, call.pairs[j].right} \cap ShownBy(call.pairs, j - 1) = {}
    /\ PoolSize(call.files) >= 2 * call.k =>
         Cardinality(ShownBy(call.pairs, Len(call.pairs))) = 2 * Len(call.pairs)
    /\ (call.pc = "loop" /\ LoopCond(call)
           /\ Cardinality(DOMAIN call.localCount \ call.usedInBatch) >= 2) =>
         \A c \in Cands(call.localCount, call.usedInBatch) :
           Elems(c) \cap call.usedInBatch = {}

C17_Witness ==
  /\ call.pc = "returned"
  /\ NoDuplicates(call.files)
  /\ PoolSize(call.files) = 4
  /\ call.k = 2
  /\ Cardinality(ShownBy(call.pairs, 2)) = 4
  /\ \E f \in Elems(call.files) : CountOrZero(call.countsObj, f) > 0

\* C18: a returned batch is shorter than k only when the pool has fewer than
\* 2 distinct names: for a pool of 2 or more names, every count table and
\* every k, also k above half the pool, the call returns exactly k pairs.
C18_PartialOnlyBelowTwo ==
  /\ (call.pc = "returned" /\ Len(call.pairs) < call.k) => PoolSize(call.files) < 2
  /\ (call.pc = "returned" /\ IsTable(call.countsObj) /\ PoolSize(call.files) >= 2) =>
       Len(call.pairs) = call.k
  /\ (IsTable(call.countsObj) /\ PoolSize(call.files) >= 2) => call.pc # "threw"

C18_Witness ==
  /\ call.pc = "returned"
  /\ PoolSize(call.files) = 2
  /\ call.k = 3
  /\ Len(call.pairs) = 3

\* C19: in every pass of the loop that appends a pair, left has the least
\* working count among the candidates of the pass, right the least among the
\* candidates other than left, and the working counts of left and right go
\* up by 1 while all others stay.
C19_LeastCountPair ==
  [][(call.pc = "loop" /\ call'.pc = "loop" /\ call'.i = call.i + 1) =>
       LET lc == call.localCount
           C  == Candidates(lc, call.usedInBatch)
           p  == call'.pairs[Len(call'.pairs)]
       IN  /\ Len(call'.pairs) = Len(call.pairs) + 1
           /\ p.left \in Least(lc, C)
           /\ p.right \in Least(lc, C \ {p.left})
           /\ \A f \in DOMAIN lc :
                call'.localCount[f] = lc[f] + (IF f \in {p.left, p.right} THEN 1 ELSE 0)]_vars

\* a batch of 3 pairs on 3 names with unequal counts: passes with and
\* without the filter
C19_Witness ==
  /\ call.pc = "returned"
  /\ NoDuplicates(call.files)
  /\ PoolSize(call.files) = 3
  /\ Len(call.pairs) = 3
  /\ \E f, g \in Elems(call.files) :
       CountOrZero(call.countsObj, f) < CountOrZero(call.countsObj, g)

\* C20: in every pass of the loop, every candidate whose working count is
\* the least among the candidates can be the left of the pair the pass
\* appends, whatever its place in the pool and whatever earlier passes chose.
C20_EveryTieCanBeLeft ==
  (call.pc = "loop" /\ LoopCond(call)) =>
    LET C == Candidates(call.localCount, call.usedInBatch)
    IN  Cardinality(C) >= 2 =>
          \A m \in Least(call.localCount, C) :
            \E nx \in LoopStep(call) :
              nx.pc = "loop" /\ nx.pairs[Len(nx.pairs)].left = m

\* a later pass with 3 tied candidates, one of them the left of an earlier
\* pair
C20_Witness ==
  /\ call.pc = "loop"
  /\ LoopCond(call)
  /\ call.i >= 2
  /\ LET C == Candidates(call.localCount, call.usedInBatch)
     IN  /\ Cardinality(Least(call.localCount, C)) >= 3
         /\ \E j \in 1 .. Len(call.pairs) : call.pairs[j].left \in Least(call.localCount, C)

\* ------------------------------------------------------------------------
\* Properties of the exposure table (checked under Spec)
\* ------------------------------------------------------------------------
\* the last step was a request that was answered with status 200
Completed(route) == res.route = route /\ res.status = 200

\* table t holds a count for image f in dimension d
Holds(t, d, f) == d \in Keys(t) /\ f \in Keys(t[d])

\* the images table t holds an entry for without their being in pool
Stale(t, pool) == UNION {Keys(t[d]) : d \in Keys(t)} \ pool

\* C7: planning does not change exposure counts.  When a /plan-pairs request
\* is answered with 200, the counts object the handler gave the planner is
\* still equal to what ensureCounts wrote, every entry of the new table has
\* the count it had before the request or is a new entry of count 0, and the
\* only entries that went are those of images no longer in the directory.
C7_PlanningKeepsCounts ==
  [][(res'.route = "/plan-pairs" /\ res'.status = 200) =>
       /\ counts' = table'
       /\ \A d \in Keys(table') : \A f \in Keys(table'[d]) :
            table'[d][f] = IF Holds(table, d, f) THEN table[d][f] ELSE 0
       /\ \A d \in Keys(table) :
            /\ d \in Keys(table')
            /\ \A f \in Keys(table[d]) \cap images : f \in Keys(table'[d])]_vars

\* a plan answered with 200 on a table that holds a count above 0, in a
\* dimension whose entries are those of a directory that lost an image
C7_Witness ==
  /\ Completed("/plan-pairs")
  /\ images # Images
  /\ \E d \in Keys(table) :
       /\ Keys(table[d]) = images
       /\ \E f \in images : table[d][f] > 0

\* the pools ensureCounts can be called with
Pools == {listAllImages(S) : S \in SUBSET Images}

\* C8: ensureCounts is idempotent.  On every table the file can hold, for
\* every dimensions array and every pool, a second call with the same
\* arguments writes the table the first call wrote.
C8_EnsureIdempotent ==
  \A dimensions \in DimLists : \A files \in Pools :
    LET once == ensureCounts(table, dimensions, files)
    IN  ensureCounts(once, dimensions, files) = once

\* a table with counts above 0 that a first call both seeds and prunes
C8_Witness ==
  /\ Completed("/submit")
  /\ \E dimensions \in DimLists : \E files \in Pools :
       LET once == ensureCounts(table, dimensions, files)
       IN  /\ \E d \in Keys(table) : Keys(once[d]) \ Keys(table[d]) # {}
           /\ \E d \in Keys(table) : Keys(table[d]) \ Keys(once[d]) # {}
           /\ \E d \in Keys(once) : \E f \in Keys(once[d]) : once[d][f] > 0
           /\ ensureCounts(once, dimensions, files) = once

\* C9 as claimed: when an image has left the directory, a call of
\* ensureCounts on the remaining pool, whatever dimensions it names, leaves
\* no entry for that image in any dimension of the table.
C9_RemovedItemGoneFromAllDimensions ==
  \A dimensions \in DimLists \ {<<>>} : \A f \in images :
    LET after == ensureCounts(table, dimensions, listAllImages(images \ {f}))
    IN  \A d \in Keys(after) : f \notin Keys(after[d])

\* C10 as claimed: after a /plan-pairs or /submit request answered with 200,
\* the table holds no entry for an image that is not in the directory.
C10_NoEntryOutsidePool ==
  (Completed("/plan-pairs") \/ Completed("/submit")) => Stale(table, images) = {}

\* ------------------------------------------------------------------------
\* Properties of the handlers (checked under SpecHandler and SpecConcurrent)
\* ------------------------------------------------------------------------
\* the handler of request r has returned, having answered route with status
Answered(r, route, status) ==
  /\ handler[r].pc = "done"
  /\ handler[r].req.route = route
  /\ handler[r].status = status

\* the count table t holds for image f in dimension d, 0 when it holds none
CountIn(t, d, f) == IF Holds(t, d, f) THEN t[d][f] ELSE 0

\* in how many comparisons of dimension d image f is the left image, plus in
\* how many it is the right image
Occurrences(comparisons, d, f) ==
  Cardinality({j \in 1 .. Len(comparisons) :
                 comparisons[j].dimension = d /\ comparisons[j].leftImage = f})
    + Cardinality({j \in 1 .. Len(comparisons) :
                     comparisons[j].dimension = d /\ comparisons[j].rightImage = f})

\* C11: when a /submit handled alone has answered 200, the table holds, for
\* every dimension and every image of the directory, the count it held
\* before the request plus the number of comparisons of that dimension with
\* the image on the left plus the number with it on the right.
C11_SubmitAddsOccurrences ==
  \A r \in Requests :
    Answered(r, "/submit", 200) =>
      \A d \in Dims : \A f \in images :
        CountIn(table, d, f) =
          CountIn(handler[r].before, d, f) + Occurrences(handler[r].req.comparisons, d, f)

\* a submit of 2 comparisons that share an image whose count was above 0
C11_Witness ==
  \E r \in Requests :
    /\ Answered(r, "/submit", 200)
    /\ \E d \in Dims : \E f \in images :
         /\ Occurrences(handler[r].req.comparisons, d, f) = 2
         /\ CountIn(handler[r].before, d, f) > 0

\* the occurrences of image f in dimension d summed over the submits of R
\* that were answered 200
RECURSIVE Recorded(_, _, _)
Recorded(R, d, f) ==
  IF R = {} THEN 0
  ELSE LET r == CHOOSE x \in R : TRUE
       IN  (IF Answered(r, "/submit", 200)
            THEN Occurrences(handler[r].req.comparisons, d, f) ELSE 0)
             + Recorded(R \ {r}, d, f)

\* C12: requests in the queue at once are handled one after the other, no
\* handler starting while another is between its read and its write; and
\* whenever no handler is on the stack the table holds, for every dimension
\* and image of the directory, the count it held before the first request
\* plus the occurrences in all submits answered 200 so far: no increment is
\* lost.
C12_NoLostUpdate ==
  /\ Cardinality(Running) <= 1
  /\ (Running = {} /\ Dispatched # {}) =>
       LET first == CHOOSE r \in Dispatched : handler[r].seq = 1
       IN  \A d \in Dims : \A f \in images :
             CountIn(table, d, f) =
               CountIn(handler[first].before, d, f) + Recorded(Requests, d, f)

\* two submits answered 200, each with a comparison, in one dimension
C12_Witness ==
  \E r, s \in Requests :
    /\ r # s
    /\ Answered(r, "/submit", 200)
    /\ Answered(s, "/submit", 200)
    /\ Len(handler[r].req.comparisons) > 0
    /\ Len(handler[s].req.comparisons) > 0
    /\ handler[r].req.comparisons[1].dimension = handler[s].req.comparisons[1].dimension

\* C13 as claimed: when a /submit has answered with an error, the counts file
\* holds what it held before the request.
C13_FailedSubmitLeavesTable ==
  \A r \in Requests :
    Answered(r, "/submit", 500) => table = handler[r].before

\* an access to the counts file threw
Failed(io) == \E j \in 1 .. Len(io) : io[j] \in {"read!", "write!"}

BadDimensions(req) ==
  /\ req.route = "/plan-pairs"
  /\ (~IsArray(req.dimensions) \/ Len(req.dimensions.items) = 0)

\* C15: a /plan-pairs request whose dimensions value is empty or not an
\* array is answered 400 straight after validation: its handler never
\* reaches ensureCounts, does not access the counts file, leaves it as it
\* was and sends no plan.
C15_BadDimensionsRejected ==
  \A r \in Requests :
    BadDimensions(handler[r].req) =>
      /\ handler[r].pc \in {"queued", "validate", "done"}
      /\ handler[r].io = <<>>
      /\ handler[r].pc = "done" =>
           /\ handler[r].status = 400
           /\ ~handler[r].sentPlan
           /\ table = handler[r].before

\* an empty dimensions array rejected while a counts file exists and the
\* directory holds all images
C15_Witness ==
  \E r \in Requests :
    /\ Answered(r, "/plan-pairs", 400)
    /\ handler[r].req.dimensions = Arr(<<>>)
    /\ images = Images
    /\ table # EmptyObj

\* C16 as claimed: a /plan-pairs request with pairsPerDimension <= 0 is not
\* answered 200, no plan is sent and the counts file is not written.
C16_NonPositiveBatchRejected ==
  \A r \in Requests :
    LET fr == handler[r]
    IN  (fr.pc = "done" /\ fr.req.route = "/plan-pairs" /\ fr.req.k <= 0) =>
          /\ fr.status # 200
          /\ ~fr.sentPlan
          /\ \A j \in 1 .. Len(fr.io) : fr.io[j] # "write"

\* the requests dispatched before request r
Earlier(r) == {s \in Requests : handler[s].seq > 0 /\ handler[s].seq < handler[r].seq}

\* the handler of /plan-pairs request r holds the counts object it plans from
HasSnapshot(r) ==
  /\ handler[r].req.route = "/plan-pairs"
  /\ \/ handler[r].pc \in {"plan", "respond"}
     \/ Answered(r, "/plan-pairs", 200)

\* C21: the counts object a /plan-pairs handler plans from holds, for every
\* dimension and image of the directory, the count from before the first
\* request plus all occurrences in the submits that were answered 200 before
\* it and nothing of any other submit (each submit's increments wholly or
\* not at all), and while that handler runs the counts file holds the same
\* counts: its ensure pass wrote no older count over a submit's increments.
C21_PlanSeesWholeSubmits ==
  \A r \in Requests :
    HasSnapshot(r) =>
      LET first == CHOOSE x \in Dispatched : handler[x].seq = 1
      IN  \A d \in Dims : \A f \in images :
            /\ CountIn(handler[r].counts, d, f) =
                 CountIn(handler[first].before, d, f) + Recorded(Earlier(r), d, f)
            /\ handler[r].pc # "done" =>
                 CountIn(table, d, f) = CountIn(handler[r].counts, d, f)

\* a plan answered 200 after a submit that was answered 200 and counted an
\* image in a dimension the plan names
C21_Witness ==
  \E r, s \in Requests :
    /\ Answered(r, "/plan-pairs", 200)
    /\ Answered(s, "/submit", 200)
    /\ handler[s].seq < handler[r].seq
    /\ \E d \in Elems(handler[r].req.dimensions.items) : \E f \in images :
         Occurrences(handler[s].req.comparisons, d, f) > 0

\* counts object cnt with the counts of every dimension but d replaced by c
WithOthers(cnt, d, c) == (d :> cnt[d]) @@ [e \in Keys(cnt) \ {d} |-> c]

\* the batches the loop of /plan-pairs can plan for dimension d
BatchesOf(cnt, dimensions, files, k, d) ==
  {PlanObject(dimensions, st.batches)[d] :
     st \in PlanFrom([counts |-> cnt, batches |-> <<>>], dimensions, 1, files, k)}

\* all comparisons of the body are of dimension d
OnlyOf(comparisons, d) ==
  \A j \in 1 .. Len(comparisons) : comparisons[j].dimension = d

\* C22: dimensions are independent.  When a /plan-pairs handler is about to
\* plan, the batches it can plan for a dimension it names are the same
\* whatever counts the other dimensions hold; and from the moment a /submit
\* whose comparisons are all of one dimension is dispatched, the counts file
\* holds for every other dimension exactly what it held before (no entry
\* added, removed or changed).
C22_DimensionsIndependent ==
  \A r \in Requests :
    LET fr == handler[r]
    IN  /\ (fr.req.route = "/plan-pairs" /\ fr.pc = "plan") =>
             LET dims  == fr.req.dimensions.items
                 files == listAllImages(images)
             IN  \A d \in Elems(dims) : \A c \in [images -> 0 .. MaxStored] :
                   BatchesOf(WithOthers(fr.counts, d, c), dims, files, fr.req.k, d)
                     = BatchesOf(fr.counts, dims, files, fr.req.k, d)
        /\ (fr.req.route = "/submit" /\ fr.pc \notin {"none", "queued"}) =>
             \A D \in Dims :
               OnlyOf(fr.req.comparisons, D) =>
                 \A d \in Dims \ {D} :
                   /\ d \in Keys(table) <=> d \in Keys(fr.before)
                   /\ d \in Keys(table) => table[d] = fr.before[d]

\* a plan of two dimensions whose counts differ has been answered 200, or a
\* submit of comparisons of one dimension has been answered 200 while the
\* file holds counts of the other dimension
C22_Witness ==
  \E r \in Requests :
    \/ /\ Answered(r, "/plan-pairs", 200)
       /\ \E d, e \in Keys(handler[r].plan) :
            /\ d # e
            /\ handler[r].counts[d] # handler[r].counts[e]
            /\ Len(handler[r].plan[d]) > 0
    \/ /\ Answered(r, "/submit", 200)
       /\ Len(handler[r].req.comparisons) > 0
       /\ \E D \in Dims :
            /\ OnlyOf(handler[r].req.comparisons, D)
            /\ \E d \in Keys(table) \ {D} : \E f \in Keys(table[d]) : table[d][f] > 0

\* every count of table t is a non-negative integer
CountsAreNatural(t) == \A d \in Keys(t) : \A f \in Keys(t[d]) : t[d][f] \in Nat

\* no count of an image that is in the directory before and after the step
\* is removed or lowered by the step
NeverLowered ==
  \A d \in Dims : \A f \in images \cap images' :
    Holds(table, d, f) => Holds(table', d, f) /\ table'[d][f] >= table[d][f]

\* C23: over every sequence of /plan-pairs and /submit requests (failing ones
\* included) and of images added to and removed from the directory, every
\* count of the counts file is a non-negative integer, and a step never
\* removes or lowers the count an image of the directory has in a dimension.
C23_CountsNeverDecrease == [](CountsAreNatural(table)) /\ [][NeverLowered]_vars

\* a request has been answered 200 after an image was removed, and the file
\* holds a count above 0 for an image of the directory next to a count of 0
C23_Witness ==
  /\ res.status = 200
  /\ images # Images
  /\ \E d \in Keys(table) : \E f, g \in Keys(table[d]) \cap images :
       table[d][f] > 0 /\ table[d][g] = 0

\* ------------------------------------------------------------------------
\* Properties of the questionnaires (checked under SpecSessions)
\* ------------------------------------------------------------------------
\* the working counts the planner ends with when it builds batch pairs from
\* countsObj
WorkingAfter(files, countsObj, k, pairs) ==
  {fr.localCount : fr \in {x \in planPairsForDimension(files, countsObj, k) :
                             x.pairs = pairs}}

\* the step is the first /submit request of questionnaire p, sent with no
\* request of any questionnaire since its plan request, and it is written
RoundTripOf(p) ==
  /\ session[p].planned
  /\ session[p].attempts = 0
  /\ ~session[p].disturbed
  /\ session'[p].stored = 1

\* C24: when a questionnaire has got its plan and its submit, sent next with
\* exactly the planned pairs, is written, then for each dimension of the
\* plan the counts file holds for every image of the directory the working
\* count the planner ended that dimension's batch with.
C24_RoundTrip ==
  [][\A p \in Participants :
       RoundTripOf(p) =>
         \A d \in Keys(session[p].plannedPairs) :
           \A lc \in WorkingAfter(listAllImages(images), Obj(session[p].snapshot[d]),
                                  session[p].PAIRS_PER_DIMENSION,
                                  session[p].plannedPairs[d]) :
             \A f \in images : Holds(table', d, f) /\ table'[d][f] = lc[f]]_vars

\* a questionnaire of two pairs has made the round trip undisturbed after
\* another questionnaire was written
C24_Witness ==
  \E p, q \in Participants :
    /\ p # q
    /\ session[p].stored = 1 /\ session[p].attempts = 1 /\ ~session[p].disturbed
    /\ session[q].stored > 0 /\ ~session[q].disturbed
    /\ Len(ComparisonsFrom(session[p].plannedPairs, PlannedKeys(session[p]), 1)) = 2
    /\ \A d \in Keys(session[p].plannedPairs) :
         WorkingAfter(listAllImages(images), Obj(session[p].snapshot[d]),
                      session[p].PAIRS_PER_DIMENSION, session[p].plannedPairs[d]) # {}

\* under every dimension of table t, the counts of any two images of the
\* directory differ by at most 1
Balanced(t) ==
  \A d \in Keys(t) : \A f, g \in images : CountIn(t, d, f) - CountIn(t, d, g) <= 1

\* so far every /submit request was written and no questionnaire sent two
\* (attempts = stored <= 1)
EachSubmittedOnce ==
  \A p \in Participants :
    session[p].attempts = session[p].stored /\ session[p].stored <= 1

\* so far the questionnaires ran one after another: each plan was followed by
\* its one submit, which was written, before the next request
Sequential == EachSubmittedOnce /\ \A p \in Participants : ~session[p].disturbed

\* C25: from a table without counts above 0, with a fixed directory of two or
\* more images and a fixed k >= 1, as long as the questionnaires run one
\* after another (plan, then the submit of exactly that plan), the counts of
\* any two images under the same dimension differ by at most 1.
C25_SequentialBalance == Sequential => Balanced(table)

\* two questionnaires of two pairs over three images have run one after the
\* other and the counts are not all equal
C25_Witness ==
  /\ Sequential
  /\ \A p \in Participants : session[p].stored = 1 /\ session[p].PAIRS_PER_DIMENSION = 2
  /\ Cardinality(images) = 3
  /\ \E d \in Keys(table) : \E f, g \in images : table[d][f] # table[d][g]

\* all questionnaires that were planned have been submitted, each once
AllSubmitted ==
  /\ EachSubmittedOnce
  /\ \A p \in Participants : session[p].planned /\ session[p].stored = 1

\* C26: in every interleaving of the plans and submits of the questionnaires
\* (two plans taken from the same counts included), once every planned batch
\* has been submitted the counts of any two images under the same dimension
\* differ by at most 1.
C26_ConcurrentBalance == AllSubmitted => Balanced(table)

\* the count the file holds is at most the number of times the planned
\* batches of the questionnaires show the image, summed over the
\* questionnaires in P
RECURSIVE Planned(_, _, _)
Planned(P, d, f) ==
  IF P = {} THEN 0
  ELSE LET p == CHOOSE x \in P : TRUE
       IN  (IF d \in Keys(session[p].plannedPairs)
            THEN Appearances(session[p].plannedPairs[d], f) ELSE 0)
             + Planned(P \ {p}, d, f)

\* C27: whatever submit attempts the questionnaires make (retries after an
\* error or a lost response included), every pair of a questionnaire adds at
\* most 1 to the count of its left image and of its right image: from a
\* table without counts above 0, no count exceeds the number of times the
\* planned batches show the image.
C27_CountedAtMostOnce ==
  \A d \in Dims : \A f \in images :
    CountIn(table, d, f) <= Planned(Participants, d, f)

\* ------------------------------------------------------------------------
\* Properties of the App component (checked under SpecApp)
\* ------------------------------------------------------------------------
\* C28: every choice in the comparisons of a /submit request was made while
\* the pair sent with it (leftImage, rightImage) was the pair on display for
\* that dimension and pairIndex, also when the participant went back to the
\* intro page and got a new plan.
C28_ChoiceMadeOnSentPair ==
  \A j \in 1 .. Len(app.payload) :
    LET row == app.payload[j]
        key == <<row.dimension, row.pairIndex>>
    IN  row.choice # "" =>
          /\ key \in Keys(app.shown)
          /\ app.shown[key] = [left |-> row.leftImage, right |-> row.rightImage]

\* a payload with a choice for every pair was sent after the participant
\* went back to the intro page with a meta answer and got a plan again
C28_Witness ==
  /\ app.sent
  /\ app.replanned
  /\ \E f \in Elems(app.metaFields) : app.meta[f] = "2"
  /\ Len(app.payload) = MaxQuestions
  /\ \A j \in 1 .. Len(app.payload) : app.payload[j].choice # ""

\* C29: while the submit page is on display every meta question asked has an
\* answer and every planned pair has the choice left or right, and the
\* comparisons of a /submit request hold no empty choice.
C29_SubmitOnlyWhenAnswered ==
  /\ Curr(app).type = "submit" =>
       /\ \A f \in Elems(app.metaFields) : app.meta[f] # ""
       /\ \A d \in Keys(app.plannedPairs) :
            \A i \in 1 .. Len(app.plannedPairs[d]) :
              ChoiceOf(app.pairChoices, d, i) \in {"left", "right"}
  /\ \A j \in 1 .. Len(app.payload) : app.payload[j].choice \in {"left", "right"}

\* the submit page is on display for a plan of MaxQuestions pairs and a
\* /submit request was sent
C29_Witness ==
  /\ Curr(app).type = "submit"
  /\ app.sent
  /\ Len(app.payload) = MaxQuestions
  /\ app.submitState.error

====
